---- MODULE Spec2Model ----
(***************************************************************************)
(* Model of ai_news_agent.py: one run of main(), which calls the LLM API,  *)
(* extracts the first text block of the response, formats each non-blank   *)
(* line into an HTML list item, and sends one multipart email over SMTP.   *)
(*                                                                         *)
(* A Python str is modelled as a sequence of one-character strings, so     *)
(* that strip / lstrip / split are computed as Python computes them.  An   *)
(* HTML fragment is a sequence whose elements are either such characters   *)
(* (interpolated text) or whole markup tokens (the literal parts of the    *)
(* f-strings).                                                             *)
(***************************************************************************)
EXTENDS Integers, Sequences, FiniteSets, TLC

VARIABLES pc, content, plain_text, html_lines, html, msg, smtp, sent, log

vars == <<pc, content, plain_text, html_lines, html, msg, smtp, sent, log>>

---------------------------------------------------------------------------
(* Bounds of the explored inputs.                                          *)

\* longest response text enumerated character by character
MaxLen == 3
\* most lines in an enumerated multi-line response text
MaxLines == 6
\* most content blocks in an enumerated multi-block response
MaxBlocks == 3

\* number of articles the prompt asks the model for
DigestSize == 5

---------------------------------------------------------------------------
(* Python str primitives.                                                  *)

\* the characters str.strip() with no argument removes
Whitespace == {" ", "\t", "\n"}

\* the argument of lstrip on line 73 (one digit stands for the ten)
OrdinalChars == {"0", "1", "2", "3", "4", "5", "6", "7", "8", "9", ".", " "}

RECURSIVE LStripIn(_, _)
\* s.lstrip(chars): drop the longest prefix made of characters of chars
LStripIn(s, chars) ==
    IF s # <<>> /\ Head(s) \in chars THEN LStripIn(Tail(s), chars) ELSE s

RECURSIVE RStripIn(_, _)
\* s.rstrip(chars)
RStripIn(s, chars) ==
    IF s # <<>> /\ s[Len(s)] \in chars
    THEN RStripIn(SubSeq(s, 1, Len(s) - 1), chars)
    ELSE s

\* s.strip()
Strip(s) == RStripIn(LStripIn(s, Whitespace), Whitespace)

\* index of the first occurrence of character c in s, 0 when absent
Find(s, c) ==
    IF \E i \in 1..Len(s) : s[i] = c
    THEN CHOOSE i \in 1..Len(s) : s[i] = c /\ \A j \in 1..(i - 1) : s[j] # c
    ELSE 0

RECURSIVE Split(_, _)
\* s.split(c) for a one-character separator: never empty, "" gives [""]
Split(s, c) ==
    IF Find(s, c) = 0
    THEN <<s>>
    ELSE <<SubSeq(s, 1, Find(s, c) - 1)>>
             \o Split(SubSeq(s, Find(s, c) + 1, Len(s)), c)

---------------------------------------------------------------------------
(* Extraction of the digest text (fetch_ai_news, lines 52-57).             *)

RECURSIVE ExtractLastText(_)
ExtractLastText(blocks) ==
    IF blocks = <<>> THEN <<>>
    ELSE IF blocks[Len(blocks)].type = "text"
         THEN Strip(blocks[Len(blocks)].text)
         ELSE ExtractLastText(SubSeq(blocks, 1, Len(blocks) - 1))

RECURSIVE ExtractPlainText(_)
\* plain_text = ""; for block in content: if text: plain_text = strip; break
ExtractPlainText(blocks) ==
    IF blocks = <<>> THEN <<>>
    ELSE IF Head(blocks).type = "text"
         THEN Strip(Head(blocks).text)
         ELSE ExtractPlainText(Tail(blocks))

---------------------------------------------------------------------------
(* Per-line parsing and rendering (fetch_ai_news, lines 65-85).            *)

LiOpen == "<li style=\"margin-bottom:16px;\">"
LiClose == "</li>"
AOpen == "<a href=\""
AMid == "\" style=\"font-size:16px;font-weight:bold;color:#1a0dab;text-decoration:none;\">"
AClose == "</a><br>"
StrongOpen == "<strong>"
StrongClose == "</strong><br>"
SpanOpen == "<span style=\"color:#555;font-size:14px;\">"
SpanClose == "</span>"

\* parts[i] with Python's 0-based index is defined
HasIndex(parts, i) == i < Len(parts)

\* parts[i], Python's 0-based index
At(parts, i) == parts[i + 1]

SummaryGuardNone(parts) == TRUE

\* "if len(parts) > 1" guarding parts[1]
SummaryGuard(parts) == Len(parts) > 1

\* "if len(parts) > 2" guarding parts[2]
UrlGuard(parts) == Len(parts) > 2

\* parts[2].strip()
UrlField(parts) == Strip(At(parts, 2))

HeadlineOrdinalOnly(headline_part) ==
    Strip(IF Len(headline_part) >= 2 /\ headline_part[1] \in OrdinalChars \ {".", " "}
             /\ headline_part[2] = "."
          THEN SubSeq(headline_part, 3, Len(headline_part))
          ELSE headline_part)

\* headline_part.lstrip("0123456789. ").strip()
Headline(headline_part) == Strip(LStripIn(headline_part, OrdinalChars))

\* the body of the try block up to the branch on url; raised is TRUE when an
\* index is read that the list does not have (IndexError)
ParseLine(line) ==
    LET parts == Split(line, "|")
        reads == {0} \cup (IF SummaryGuard(parts) THEN {1} ELSE {})
                     \cup (IF UrlGuard(parts) THEN {2} ELSE {})
    IN  IF \E i \in reads : ~HasIndex(parts, i)
        THEN [raised |-> TRUE]
        ELSE [raised   |-> FALSE,
              headline |-> Headline(Strip(At(parts, 0))),
              summary  |-> IF SummaryGuard(parts) THEN Strip(At(parts, 1)) ELSE <<>>,
              url      |-> IF UrlGuard(parts) THEN UrlField(parts) ELSE <<>>]

UseAnchorAlways(url) == TRUE

\* "if url:"
UseAnchor(url) == url # <<>>

\* the item of the "if url:" branch
AnchorItem(headline, summary, url) ==
    <<LiOpen, AOpen>> \o url \o <<AMid>> \o headline \o <<AClose, SpanOpen>>
        \o summary \o <<SpanClose, LiClose>>

\* the item of the else branch
BoldItem(headline, summary) ==
    <<LiOpen, StrongOpen>> \o headline \o <<StrongClose, SpanOpen>>
        \o summary \o <<SpanClose, LiClose>>

\* the item of the except branch
RawItem(line) == <<LiOpen>> \o line \o <<LiClose>>

\* one pass of the try/except for a stripped, non-empty line
FormatLine(line) ==
    LET p == ParseLine(line)
    IN  IF p.raised THEN RawItem(line)
        ELSE IF UseAnchor(p.url) THEN AnchorItem(p.headline, p.summary, p.url)
        ELSE BoldItem(p.headline, p.summary)

RECURSIVE FormatLoopKeepBlank(_, _)
FormatLoopKeepBlank(lines, acc) ==
    IF lines = <<>> THEN acc
    ELSE FormatLoopKeepBlank(Tail(lines), Append(acc, FormatLine(Strip(Head(lines)))))

RECURSIVE FormatLoopTwice(_, _)
FormatLoopTwice(lines, acc) ==
    IF lines = <<>> THEN acc
    ELSE IF Strip(Head(lines)) = <<>> THEN FormatLoopTwice(Tail(lines), acc)
    ELSE FormatLoopTwice(Tail(lines),
             acc \o <<FormatLine(Strip(Head(lines))), FormatLine(Strip(Head(lines)))>>)

RECURSIVE FormatLoopPrepend(_, _)
FormatLoopPrepend(lines, acc) ==
    IF lines = <<>> THEN acc
    ELSE IF Strip(Head(lines)) = <<>> THEN FormatLoopPrepend(Tail(lines), acc)
    ELSE FormatLoopPrepend(Tail(lines), <<FormatLine(Strip(Head(lines)))>> \o acc)

RECURSIVE FormatLoop(_, _)
\* for line in lines: strip; skip when empty; append one item
FormatLoop(lines, acc) ==
    IF lines = <<>> THEN acc
    ELSE IF Strip(Head(lines)) = <<>> THEN FormatLoop(Tail(lines), acc)
    ELSE FormatLoop(Tail(lines), Append(acc, FormatLine(Strip(Head(lines)))))

\* html_lines after the loop over plain_text.split("\n")
BuildHtmlLines(text) == FormatLoop(Split(text, "\n"), <<>>)

RECURSIVE Concat(_)
\* "".join(html_lines)
Concat(items) == IF items = <<>> THEN <<>> ELSE Head(items) \o Concat(Tail(items))

\* the page around the list (the date in the heading is a placeholder token)
HtmlPage(items) ==
    <<"<html><body>", "<h2>Daily AI News - {today_str}</h2>", "<ul>">>
        \o Concat(items) \o <<"</ul>", "<p>Powered by Claude AI</p>", "</body></html>">>

---------------------------------------------------------------------------
(* The responses explored.                                                 *)

Alphabet == {"1", ".", " ", "\t", "|", "\n", "a"}

TextBlock(t) == [type |-> "text", text |-> t]

ToolBlock == [type |-> "server_tool_use"]

\* every text of at most MaxLen characters
CharTexts == UNION {[1..n -> Alphabet] : n \in 0..MaxLen}

Ordinals == {<<"1", ".", " ">>, <<"1", ".">>, <<>>}

HeadlineSamples == {<<"a">>, <<"1", "a">>, <<".", "a">>, <<"a", " ", "1">>, <<>>}

SummarySamples == {<<"b">>, <<>>}

UrlSamples == {<<"u">>, <<" ">>, <<>>}

Separators == {<<"|">>, <<" ", "|", " ">>}

\* one-line texts made of an ordinal and one, two or three fields
StructuredTexts ==
    LET one == {o \o h : o \in Ordinals, h \in HeadlineSamples}
        two == {l \o s \o b : l \in one, s \in Separators, b \in SummarySamples}
        three == {l \o s \o u : l \in two, s \in Separators, u \in UrlSamples}
    IN  one \cup two \cup three

LineSamples == {<<" ">>, <<"1", ".", "a", "|", "b", "|", "u">>, <<"a">>}

RECURSIVE JoinLines(_)
JoinLines(ls) ==
    IF Len(ls) = 0 THEN <<>>
    ELSE IF Len(ls) = 1 THEN ls[1]
    ELSE ls[1] \o <<"\n">> \o JoinLines(Tail(ls))

\* texts of several lines
MultiLineTexts == {JoinLines(ls) : ls \in UNION {[1..n -> LineSamples] : n \in 2..MaxLines}}

BlockSamples ==
    {ToolBlock, TextBlock(<<>>), TextBlock(<<" ", "a", "|", "b", "\n">>),
     TextBlock(<<"1", ".", "a">>)}

\* the values response.content may take
Contents ==
    {<<TextBlock(t)>> : t \in CharTexts \cup StructuredTexts \cup MultiLineTexts}
        \cup UNION {[1..n -> BlockSamples] : n \in 0..MaxBlocks}

---------------------------------------------------------------------------
(* The run of main().                                                      *)

NoMsg == [plain |-> <<"<none>">>, html |-> <<"<none>">>]

Init ==
    /\ pc = "start"
    /\ content = <<>>
    /\ plain_text = <<>>
    /\ html_lines = <<>>
    /\ html = <<>>
    /\ msg = NoMsg
    /\ smtp = "none"
    /\ sent = <<>>
    /\ log = <<>>

\* main prints, fetch_ai_news calls the API, which raises: the run ends
ApiCallFail ==
    /\ pc = "start"
    /\ pc' = "failed"
    /\ log' = log \o <<"print:fetching", "api:create", "raise:api">>
    /\ UNCHANGED <<content, plain_text, html_lines, html, msg, smtp, sent>>

\* main prints, fetch_ai_news calls the API and formats the response c,
\* main prints the fetched text
ApiCallOk(c) ==
    /\ pc = "start"
    /\ content' = c
    /\ plain_text' = ExtractPlainText(c)
    /\ html_lines' = BuildHtmlLines(ExtractPlainText(c))
    /\ html' = HtmlPage(BuildHtmlLines(ExtractPlainText(c)))
    /\ pc' = "fetched"
    /\ log' = log \o <<"print:fetching", "api:create", "api:return", "print:fetched">>
    /\ UNCHANGED <<msg, smtp, sent>>

SmtpConnectEarly ==
    /\ pc \in {"start", "fetched"}
    /\ msg' = [plain |-> plain_text, html |-> html]
    /\ smtp' = "open"
    /\ pc' = "connected"
    /\ log' = Append(log, "smtp:connect")
    /\ UNCHANGED <<content, plain_text, html_lines, html, sent>>

\* send_email builds the message and SMTP_SSL(...) connects
SmtpConnectOk ==
    /\ pc = "fetched"
    /\ msg' = [plain |-> plain_text, html |-> html]
    /\ smtp' = "open"
    /\ pc' = "connected"
    /\ log' = Append(log, "smtp:connect")
    /\ UNCHANGED <<content, plain_text, html_lines, html, sent>>

\* send_email builds the message and SMTP_SSL(...) raises
SmtpConnectFail ==
    /\ pc = "fetched"
    /\ msg' = [plain |-> plain_text, html |-> html]
    /\ pc' = "failed"
    /\ log' = log \o <<"smtp:connect", "raise:connect">>
    /\ UNCHANGED <<content, plain_text, html_lines, html, smtp, sent>>

LoginOk ==
    /\ pc = "connected"
    /\ pc' = "logged_in"
    /\ log' = Append(log, "smtp:login")
    /\ UNCHANGED <<content, plain_text, html_lines, html, msg, smtp, sent>>

LoginFailSwallowed ==
    /\ pc = "connected"
    /\ pc' = "logged_in"
    /\ log' = log \o <<"smtp:login", "raise:login">>
    /\ UNCHANGED <<content, plain_text, html_lines, html, msg, smtp, sent>>

\* server.login raises; the with block closes the session on the way out
LoginFail ==
    /\ pc = "connected"
    /\ smtp' = "closed"
    /\ pc' = "failed"
    /\ log' = log \o <<"smtp:login", "raise:login">>
    /\ UNCHANGED <<content, plain_text, html_lines, html, msg, sent>>

\* server.sendmail delivers msg; the with block closes the session
SendmailOk ==
    /\ pc = "logged_in"
    /\ sent' = Append(sent, msg)
    /\ smtp' = "closed"
    /\ pc' = "sent"
    /\ log' = Append(log, "smtp:sendmail")
    /\ UNCHANGED <<content, plain_text, html_lines, html, msg>>

\* server.sendmail raises; the with block closes the session on the way out
SendmailFail ==
    /\ pc = "logged_in"
    /\ smtp' = "closed"
    /\ pc' = "failed"
    /\ log' = log \o <<"smtp:sendmail", "raise:sendmail">>
    /\ UNCHANGED <<content, plain_text, html_lines, html, msg, sent>>

\* print("Email sent to ...") and main returns
PrintSent ==
    /\ pc = "sent"
    /\ pc' = "done"
    /\ log' = Append(log, "print:sent")
    /\ UNCHANGED <<content, plain_text, html_lines, html, msg, smtp, sent>>

Next ==
    \/ ApiCallFail
    \/ \E c \in Contents : ApiCallOk(c)
    \/ SmtpConnectOk
    \/ SmtpConnectFail
    \/ LoginOk
    \/ LoginFail
    \/ SendmailOk
    \/ SendmailFail
    \/ PrintSent

Spec == Init /\ [][Next]_vars

---------------------------------------------------------------------------
(* Vocabulary of the properties.                                           *)

\* the API call has returned a response
Returned == \E i \in DOMAIN log : log[i] = "api:return"

\* number of occurrences of e in sequence s
Count(s, e) == Cardinality({i \in DOMAIN s : s[i] = e})

Occurs(s, e) == \E i \in DOMAIN s : s[i] = e

\* the stripped lines of text that are not empty, in order
NonBlankLines(text) ==
    LET ls == Split(text, "\n")
    IN  SelectSeq([i \in DOMAIN ls |-> Strip(ls[i])], LAMBDA l : l # <<>>)

\* the '|'-separated fields of a line
Fields(line) == Split(line, "|")

\* the elements of item strictly between markup tokens open and close
Between(item, open, close) == SubSeq(item, Find(item, open) + 1, Find(item, close) - 1)

IsBold(item) == Len(item) >= 2 /\ item[1] = LiOpen /\ item[2] = StrongOpen

IsAnchor(item) == Len(item) >= 2 /\ item[1] = LiOpen /\ item[2] = AOpen

\* the headline an anchor or bold item shows
HeadlineOf(item) ==
    IF IsBold(item) THEN Between(item, StrongOpen, StrongClose)
    ELSE Between(item, AMid, AClose)

\* a line that is not three non-blank fields
Malformed(line) ==
    \/ Len(Fields(line)) # 3
    \/ \E k \in DOMAIN Fields(line) : Strip(Fields(line)[k]) = <<>>

NoTextBlock == \A i \in DOMAIN content : content[i].type # "text"

---------------------------------------------------------------------------
(* C1.  As claimed: every malformed non-blank line is rendered as a list   *)
(* item holding the raw line unchanged.                                    *)
C1_MalformedVerbatim ==
    Returned =>
        \A i \in DOMAIN NonBlankLines(plain_text) :
            Malformed(NonBlankLines(plain_text)[i]) =>
                /\ i \in DOMAIN html_lines
                /\ html_lines[i] = RawItem(NonBlankLines(plain_text)[i])

(* C1, amended.  Parsing a malformed non-blank line never raises: the line *)
(* gets a list item in the bold or the anchor form built from its fields,  *)
(* and never the raw-line item of the except branch.                       *)
C1_MalformedNeverRaw ==
    Returned =>
        \A i \in DOMAIN NonBlankLines(plain_text) :
            Malformed(NonBlankLines(plain_text)[i]) =>
                /\ i \in DOMAIN html_lines
                /\ IsBold(html_lines[i]) \/ IsAnchor(html_lines[i])
                /\ html_lines[i] # RawItem(NonBlankLines(plain_text)[i])
                /\ ~ParseLine(NonBlankLines(plain_text)[i]).raised

\* a line with no '|' at all was rendered, in bold
C1_Witness ==
    /\ Returned
    /\ \E i \in DOMAIN NonBlankLines(plain_text) :
           /\ Find(NonBlankLines(plain_text)[i], "|") = 0
           /\ i \in DOMAIN html_lines
           /\ IsBold(html_lines[i])

(* C2.  As claimed: the HTML list never holds more than five <li> items.   *)
C2_AtMostFive == Count(html, LiOpen) <= DigestSize

(* C2, amended.  The HTML list holds at most as many <li> items as the     *)
(* first text block has non-blank lines, hence at most five whenever the   *)
(* response has at most five non-blank lines; there is no cap otherwise.   *)
C2_AtMostNonBlank ==
    Returned =>
        /\ Count(html, LiOpen) <= Len(NonBlankLines(plain_text))
        /\ Len(NonBlankLines(plain_text)) <= DigestSize
               => Count(html, LiOpen) <= DigestSize

\* a response of more than five non-blank lines was rendered
C2_Witness ==
    /\ Returned
    /\ Len(NonBlankLines(plain_text)) > DigestSize
    /\ Count(html, LiOpen) > DigestSize

(* C3.  As claimed: a line "N. A | B | C" with A, B, C non-blank gives one *)
(* anchor item with headline A, summary B and href C, each trimmed.        *)
C3_AnchorWrapsHeadline ==
    Returned =>
        \A i \in DOMAIN NonBlankLines(plain_text) :
            \A a \in HeadlineSamples, b \in SummarySamples, c \in UrlSamples,
               s1 \in Separators, s2 \in Separators :
                ( /\ Strip(a) # <<>> /\ Strip(b) # <<>> /\ Strip(c) # <<>>
                  /\ NonBlankLines(plain_text)[i]
                         = <<"1", ".", " ">> \o a \o s1 \o b \o s2 \o c )
                => /\ i \in DOMAIN html_lines
                   /\ html_lines[i] = AnchorItem(Strip(a), Strip(b), Strip(c))

(* C4.  A non-blank line lacking a URL (fewer than three fields, or a      *)
(* blank third field) is rendered with a bold headline and no anchor,      *)
(* followed by the summary, which is empty when the second field is        *)
(* missing.                                                                *)
C4_NoUrlBold ==
    Returned =>
        \A i \in DOMAIN NonBlankLines(plain_text) :
            LET f == Fields(NonBlankLines(plain_text)[i])
            IN  (Len(f) < 3 \/ Strip(f[3]) = <<>>) =>
                    /\ i \in DOMAIN html_lines
                    /\ IsBold(html_lines[i])
                    /\ ~Occurs(html_lines[i], AOpen)
                    /\ ~Occurs(html_lines[i], AMid)
                    /\ ~Occurs(html_lines[i], AClose)
                    /\ Find(html_lines[i], SpanOpen) = Find(html_lines[i], StrongClose) + 1
                    /\ Find(html_lines[i], SpanClose) = Len(html_lines[i]) - 1
                    /\ html_lines[i][Len(html_lines[i])] = LiClose
                    /\ Between(html_lines[i], SpanOpen, SpanClose)
                           = (IF Len(f) >= 2 THEN Strip(f[2]) ELSE <<>>)

\* a line of three fields whose third is blank was rendered in bold
C4_Witness ==
    /\ Returned
    /\ \E i \in DOMAIN NonBlankLines(plain_text) :
           /\ Len(Fields(NonBlankLines(plain_text)[i])) = 3
           /\ Strip(Fields(NonBlankLines(plain_text)[i])[3]) = <<>>
           /\ Strip(Fields(NonBlankLines(plain_text)[i])[2]) # <<>>
           /\ i \in DOMAIN html_lines
           /\ IsBold(html_lines[i])

(* C5.  A run makes at most one API call, opens at most one SMTP session,  *)
(* logs in and sends at most once; a completed run does each exactly once; *)
(* the session is opened only after the API call returned, and sendmail    *)
(* only after a login that did not raise.                                  *)
C5_OneCallOneSession ==
    /\ Count(log, "api:create") <= 1
    /\ Count(log, "smtp:connect") <= 1
    /\ Count(log, "smtp:login") <= 1
    /\ Count(log, "smtp:sendmail") <= 1
    /\ Len(sent) <= 1
    /\ pc = "done" =>
           /\ Count(log, "api:create") = 1
           /\ Count(log, "smtp:connect") = 1
           /\ Count(log, "smtp:login") = 1
           /\ Count(log, "smtp:sendmail") = 1
           /\ Len(sent) = 1
           /\ smtp = "closed"
    /\ \A i \in DOMAIN log :
           log[i] = "smtp:connect" => \E j \in 1..(i - 1) : log[j] = "api:return"
    /\ \A i \in DOMAIN log :
           log[i] = "smtp:login" => \E j \in 1..(i - 1) : log[j] = "smtp:connect"
    /\ \A i \in DOMAIN log :
           log[i] = "smtp:sendmail" =>
               /\ \E j \in 1..(i - 1) : log[j] = "smtp:login"
               /\ ~Occurs(log, "raise:login")

\* a run completed
C5_Witness == pc = "done" /\ Occurs(log, "print:sent")

(* C6.  A failure ends the run: after an API failure no SMTP session is    *)
(* opened and nothing is sent; after a connect or login failure sendmail   *)
(* is never called; after any failure "Email sent" is not printed and the  *)
(* failing step is the last one the run executed.                          *)
C6_FailuresPropagate ==
    LET Raises == {"raise:api", "raise:connect", "raise:login", "raise:sendmail"}
    IN  /\ Occurs(log, "raise:api") =>
               /\ ~Occurs(log, "smtp:connect")
               /\ smtp = "none"
               /\ sent = <<>>
        /\ (Occurs(log, "raise:connect") \/ Occurs(log, "raise:login")) =>
               /\ ~Occurs(log, "smtp:sendmail")
               /\ sent = <<>>
        /\ (\E i \in DOMAIN log : log[i] \in Raises) =>
               /\ ~Occurs(log, "print:sent")
               /\ log[Len(log)] \in Raises
               /\ pc = "failed"
               /\ sent = <<>>
               /\ ~ENABLED Next

\* a run failed at login and stopped
C6_Witness == pc = "failed" /\ Occurs(log, "raise:login") /\ smtp = "closed"

(* C7.  plain_text is the trimmed text of the first block of type text,    *)
(* whatever precedes or follows it, and the plain part and the HTML part   *)
(* of the message are both made from that block.                           *)
C7_FirstTextBlock ==
    Returned =>
        \A i \in DOMAIN content :
            (content[i].type = "text" /\ \A j \in 1..(i - 1) : content[j].type # "text")
            => /\ plain_text = Strip(content[i].text)
               /\ html = HtmlPage(BuildHtmlLines(Strip(content[i].text)))
               /\ msg # NoMsg =>
                      /\ msg.plain = Strip(content[i].text)
                      /\ msg.html = HtmlPage(BuildHtmlLines(Strip(content[i].text)))
               /\ \A k \in DOMAIN sent :
                      /\ sent[k].plain = Strip(content[i].text)
                      /\ sent[k].html = HtmlPage(BuildHtmlLines(Strip(content[i].text)))

\* a tool block, then a text block, then a different text block; email sent
C7_Witness ==
    /\ pc = "done"
    /\ Len(content) = 3
    /\ content[1].type # "text"
    /\ content[2].type = "text"
    /\ content[3].type = "text"
    /\ Strip(content[3].text) # Strip(content[2].text)
    /\ Len(sent) = 1
    /\ sent[1].plain = Strip(content[2].text)

(* C8.  The list holds exactly one item per non-blank line, in the order   *)
(* of the lines: item i is the rendering of the i-th non-blank line, and   *)
(* blank lines give no item.                                               *)
C8_OneItemPerLine ==
    Returned =>
        /\ Len(html_lines) = Len(NonBlankLines(plain_text))
        /\ \A i \in DOMAIN html_lines :
               html_lines[i] = FormatLine(NonBlankLines(plain_text)[i])
        /\ Count(html, LiOpen) = Len(NonBlankLines(plain_text))
        /\ Count(html, LiClose) = Len(NonBlankLines(plain_text))

\* a blank line between two differently rendered lines was skipped
C8_Witness ==
    /\ Returned
    /\ Len(Split(plain_text, "\n")) > Len(NonBlankLines(plain_text))
    /\ Len(html_lines) >= 2
    /\ html_lines[1] # html_lines[2]
    /\ IsAnchor(html_lines[1]) /\ IsBold(html_lines[2])

(* C9.  With no block of type text the fetch does not fail: plain_text is  *)
(* empty, the list has no item, and a run that completes has sent exactly  *)
(* one email, whose plain part is empty.                                   *)
C9_NoTextBlockEmptyDigest ==
    (Returned /\ NoTextBlock) =>
        /\ plain_text = <<>>
        /\ html_lines = <<>>
        /\ Count(html, LiOpen) = 0
        /\ ~Occurs(log, "raise:api")
        /\ pc = "done" => Len(sent) = 1 /\ sent[1].plain = <<>>

\* a response of tool blocks only was fetched and the email sent
C9_Witness ==
    /\ pc = "done"
    /\ Len(content) >= 1
    /\ NoTextBlock
    /\ Len(sent) = 1

(* C10.  As claimed: the rendered headline never begins with a digit, a    *)
(* dot or a space.                                                         *)
C10_NeverOrdinalStart ==
    Returned =>
        \A i \in DOMAIN html_lines :
            HeadlineOf(html_lines[i]) = <<>>
                \/ HeadlineOf(html_lines[i])[1] \notin OrdinalChars

(* C10, amended.  The rendered headline is what is left of the trimmed     *)
(* first field after removing a leading run of digits, dots and            *)
(* whitespace.  It never begins with whitespace, and it begins with a      *)
(* digit or a dot only when the removed run holds a whitespace character   *)
(* other than a space (a tab).  A first field made only of digits, dots    *)
(* and spaces renders as an empty headline.                                *)
C10_HeadlineStripped ==
    Returned =>
        \A i \in DOMAIN html_lines :
            LET f1 == Strip(Fields(NonBlankLines(plain_text)[i])[1])
                h  == HeadlineOf(html_lines[i])
                k  == Len(f1) - Len(h)
            IN  /\ IsBold(html_lines[i]) \/ IsAnchor(html_lines[i])
                /\ k >= 0
                /\ h = SubSeq(f1, k + 1, Len(f1))
                /\ \A j \in 1..k : f1[j] \in OrdinalChars \cup Whitespace
                /\ h # <<>> => h[1] \notin Whitespace /\ h[Len(h)] \notin Whitespace
                /\ (h # <<>> /\ h[1] \in OrdinalChars) =>
                       \E j \in 1..k : f1[j] \in Whitespace \ {" "}
                /\ (\A j \in DOMAIN f1 : f1[j] \in OrdinalChars) => h = <<>>

\* the headline "1a" of the line "1. 1a" was rendered as "a"
C10_Witness ==
    /\ Returned
    /\ \E i \in DOMAIN html_lines :
           /\ Strip(Fields(NonBlankLines(plain_text)[i])[1]) = <<"1", ".", " ", "1", "a">>
           /\ HeadlineOf(html_lines[i]) = <<"a">>

====
